---- MODULE Spec2Model ----
(***************************************************************************)
(* A model of the iCalendar splitter: ICalParser (src/js/ical-parser.js)   *)
(* and ICalWriter (src/js/ical-writer.js).                                 *)
(*                                                                         *)
(* A text is a sequence of UTF-16 code units; a code unit is written as a  *)
(* one-character string, except the two classes of surrogate units, which  *)
(* are written HS (a unit in 0xD800..0xDBFF) and LS (0xDC00..0xDFFF).      *)
(***************************************************************************)
EXTENDS Integers, Sequences, FiniteSets, TLC

VARIABLES
  phase,      \* which call of the session has returned last
  doc,        \* how the document was made: the vocabulary lines it consists of
  text,       \* the document handed to ICalParser.parse
  calendar,   \* the calendar parse returned
  selection,  \* the events handed to the writer, as indices into calendar.events
  cleanMode,  \* the cleanMode argument of the last writer call
  output,     \* the text ICalWriter.write returned
  maxSizeBytes, \* the maxSizeBytes argument of splitBySize
  startDate,  \* the bounds of filterByDateRange (<<>> is an absent bound)
  endDate,
  result,     \* what the last splitting or filtering call returned
  stats,      \* the statistics loadFile took of the calendar
  fl_line,      \* foldLine: its argument
  fl_remaining, \* foldLine: the local `remaining`
  fl_result,    \* foldLine: the local `result`, an array of segments
  fl_isFirst,   \* foldLine: the local `isFirst`
  fl_pc,        \* foldLine: "idle", "loop" (at the head of the while), "done"
  fl_return     \* foldLine: the returned text, once fl_pc = "done"

vars == <<phase, doc, text, calendar, selection, cleanMode, output, maxSizeBytes,
          startDate, endDate, result, stats,
          fl_line, fl_remaining, fl_result, fl_isFirst, fl_pc, fl_return>>

sessionVars == <<phase, doc, text, calendar, selection, cleanMode, output,
                 maxSizeBytes, startDate, endDate, result, stats>>

foldVars == <<fl_line, fl_remaining, fl_result, fl_isFirst, fl_pc, fl_return>>

----------------------------------------------------------------------------
(* Code units and the string primitives of the runtime the code relies on. *)

CR == "\r"
LF == "\n"
SP == " "
TAB == "\t"
HS == "<HS>"
LS == "<LS>"
CRLF == <<CR, LF>>

\* String.prototype.trim's white space, within the model's alphabet.
IsWhiteSpace(c) == c \in {SP, TAB, CR, LF}

RECURSIVE TrimStart(_)
TrimStart(s) ==
  IF s # <<>> /\ IsWhiteSpace(Head(s)) THEN TrimStart(Tail(s)) ELSE s

RECURSIVE TrimEnd(_)
TrimEnd(s) ==
  IF s # <<>> /\ IsWhiteSpace(s[Len(s)])
  THEN TrimEnd(SubSeq(s, 1, Len(s) - 1))
  ELSE s

Trim(s) == TrimEnd(TrimStart(s))

\* The least and the greatest element of a non-empty set of integers.
MinOf(S) == CHOOSE x \in S : \A y \in S : x <= y
MaxOf(S) == CHOOSE x \in S : \A y \in S : x >= y

\* The positions (1-based) of the unit c in s.
Positions(s, c) == {k \in 1..Len(s) : s[k] = c}

\* String.prototype.indexOf for a one-unit needle, 0-based, -1 when absent.
IndexOf(s, c) == IF Positions(s, c) = {} THEN -1 ELSE MinOf(Positions(s, c)) - 1

\* String.prototype.lastIndexOf for a one-unit needle, 0-based, -1 when absent.
LastIndexOf(s, c) == IF Positions(s, c) = {} THEN -1 ELSE MaxOf(Positions(s, c)) - 1

\* The positions 1..n that are in the set P, in increasing order.
IncreasingSeq(n, P) ==
  LET InP(k) == k \in P IN SelectSeq([k \in 1..n |-> k], InP)

\* String.prototype.substring(from, to) and substring(from), 0-based.
Substring(s, from, to) == SubSeq(s, from + 1, to)
SubstringFrom(s, from) == SubSeq(s, from + 1, Len(s))

StartsWith(s, p) == Len(s) >= Len(p) /\ SubSeq(s, 1, Len(p)) = p

LowerCase == <<"a","b","c","d","e","f","g","h","i","j","k","l","m",
               "n","o","p","q","r","s","t","u","v","w","x","y","z">>
UpperCase == <<"A","B","C","D","E","F","G","H","I","J","K","L","M",
               "N","O","P","Q","R","S","T","U","V","W","X","Y","Z">>

UpperUnit(c) ==
  IF \E k \in 1..26 : LowerCase[k] = c
  THEN UpperCase[CHOOSE k \in 1..26 : LowerCase[k] = c]
  ELSE c

\* String.prototype.toUpperCase, within the model's alphabet.
ToUpperCase(s) == [k \in 1..Len(s) |-> UpperUnit(s[k])]

\* Array.prototype.join.
RECURSIVE Join(_, _)
Join(segs, sep) ==
  IF segs = <<>> THEN <<>>
  ELSE IF Len(segs) = 1 THEN segs[1]
  ELSE segs[1] \o sep \o Join(Tail(segs), sep)

\* String.prototype.split for a one-unit separator: the pieces between
\* consecutive separators, one more than there are separators.
Split(s, sep) ==
  LET cuts == <<0>> \o IncreasingSeq(Len(s), Positions(s, sep)) \o <<Len(s) + 1>>
  IN [j \in 1..(Len(cuts) - 1) |-> SubSeq(s, cuts[j] + 1, cuts[j + 1] - 1)]

\* s without the units at the positions in the set P.
Without(s, P) ==
  LET kept == IncreasingSeq(Len(s), (1..Len(s)) \ P)
  IN [j \in 1..Len(kept) |-> s[kept[j]]]

\* The concatenation of an array of texts.
RECURSIVE Concat(_)
Concat(segs) == IF segs = <<>> THEN <<>> ELSE Head(segs) \o Concat(Tail(segs))

----------------------------------------------------------------------------
(* ICalParser.parse                                                        *)

\* icsContent.replace(/\r\n/g, '\n'): every CR that an LF follows goes.
ReplaceCRLF(s) ==
  Without(s, {k \in 1..(Len(s) - 1) : s[k] = CR /\ s[k + 1] = LF})

\* .replace(/\r/g, '\n')
ReplaceCR(s) == [k \in 1..Len(s) |-> IF s[k] = CR THEN LF ELSE s[k]]

normalizedContent(icsContent) == ReplaceCR(ReplaceCRLF(icsContent))

\* A variant that deletes the LF of a fold and leaves the space or tab.
RemoveFoldBreaks(s) ==
  Without(s, {k \in 1..(Len(s) - 1) : s[k] = LF /\ s[k + 1] \in {SP, TAB}})

\* s.replace(/\n[ \t]/g, ''): two matches cannot overlap, so every LF that a
\* space or tab follows goes, together with that space or tab.
RemoveFolds(s) ==
  LET folds == {k \in 1..(Len(s) - 1) : s[k] = LF /\ s[k + 1] \in {SP, TAB}}
  IN Without(s, folds \cup {k + 1 : k \in folds})

\* A variant that joins no continuation line.
contentNotUnfolded(icsContent) == normalizedContent(icsContent)

unfoldedContent(icsContent) == RemoveFolds(normalizedContent(icsContent))

NonBlank(line) == Trim(line) # <<>>

\* unfoldedContent.split('\n').filter(line => line.trim())
lines(icsContent) == SelectSeq(Split(unfoldedContent(icsContent), LF), NonBlank)

BEGIN_VEVENT == <<"B","E","G","I","N",":","V","E","V","E","N","T">>
END_VEVENT == <<"E","N","D",":","V","E","V","E","N","T">>
BEGIN_VALARM == <<"B","E","G","I","N",":","V","A","L","A","R","M">>
END_VALARM == <<"E","N","D",":","V","A","L","A","R","M">>
BEGIN_VCALENDAR == <<"B","E","G","I","N",":","V","C","A","L","E","N","D","A","R">>
END_VCALENDAR == <<"E","N","D",":","V","C","A","L","E","N","D","A","R">>
BEGIN_ == <<"B","E","G","I","N",":">>

\* A property bag (a JS object used as a map) is the sequence of its entries in
\* insertion order; assigning an existing key replaces the entry in place.
PropHas(props, name) == \E k \in 1..Len(props) : props[k].name = name

PropGet(props, name) == props[CHOOSE k \in 1..Len(props) : props[k].name = name]

PropPut(props, entry) ==
  IF PropHas(props, entry.name)
  THEN [k \in 1..Len(props) |->
          IF props[k].name = entry.name THEN entry ELSE props[k]]
  ELSE Append(props, entry)

\* A variant that splits a line at its last ':'.
eventPropertyAtLastColon(trimmedLine) ==
  LET colonIndex == LastIndexOf(trimmedLine, ":")
      propertyPart == Substring(trimmedLine, 0, colonIndex)
      value == SubstringFrom(trimmedLine, colonIndex + 1)
      semicolonIndex == IndexOf(propertyPart, ";")
      propertyName == IF semicolonIndex = -1 THEN propertyPart
                      ELSE Substring(propertyPart, 0, semicolonIndex)
  IN [name |-> propertyName,
      value |-> value,
      parameters |-> IF semicolonIndex = -1 THEN <<>>
                     ELSE SubstringFrom(propertyPart, semicolonIndex),
      raw |-> trimmedLine]

\* The entry the loop body builds from a line of an event that holds a ':'.
eventProperty(trimmedLine) ==
  LET colonIndex == IndexOf(trimmedLine, ":")
      propertyPart == Substring(trimmedLine, 0, colonIndex)
      value == SubstringFrom(trimmedLine, colonIndex + 1)
      semicolonIndex == IndexOf(propertyPart, ";")
      propertyName == IF semicolonIndex = -1 THEN propertyPart
                      ELSE Substring(propertyPart, 0, semicolonIndex)
  IN [name |-> propertyName,
      value |-> value,
      parameters |-> IF semicolonIndex = -1 THEN <<>>
                     ELSE SubstringFrom(propertyPart, semicolonIndex),
      raw |-> trimmedLine]

\* The entry the loop body builds from a header line that holds a ':'.
calendarProperty(trimmedLine) ==
  LET colonIndex == IndexOf(trimmedLine, ":")
      propertyPart == Substring(trimmedLine, 0, colonIndex)
      semicolonIndex == IndexOf(propertyPart, ";")
      propertyName == IF semicolonIndex = -1 THEN propertyPart
                      ELSE Substring(propertyPart, 0, semicolonIndex)
  IN [name |-> propertyName,
      value |-> SubstringFrom(trimmedLine, colonIndex + 1),
      raw |-> trimmedLine]

\* The locals of parse before its loop.  currentEvent is <<>> for null and
\* <<e>> for an event object e.
ScanInit ==
  [headerLines |-> <<>>, events |-> <<>>, properties |-> <<>>,
   currentEvent |-> <<>>, currentEventLines |-> <<>>,
   inEvent |-> FALSE, foundFirstEvent |-> FALSE, inValarm |-> FALSE]

\* A variant that skips no line.
SkipsNoLine(st) == FALSE

\* `if (inValarm) continue`: whether a line of an event is skipped.
SkipsAlarmLine(st) == st.inValarm

\* A variant that keeps a line as a header line wherever it stands.
keepsEverywhere(st) == TRUE

\* `if (!foundFirstEvent)`: whether a line outside the events is a header line.
keepsAsHeader(st) == ~st.foundFirstEvent

\* One pass of the loop of parse over `line`.
ScanStep(st, line) ==
  LET trimmedLine == Trim(line) IN
  IF trimmedLine = BEGIN_VEVENT THEN
    [st EXCEPT !.foundFirstEvent = TRUE, !.inEvent = TRUE,
               !.currentEventLines = <<>>,
               !.currentEvent = <<[properties |-> <<>>]>>]
  ELSE IF trimmedLine = END_VEVENT THEN
    [st EXCEPT !.events =
                 IF st.currentEvent # <<>>
                 THEN Append(@, [properties |-> st.currentEvent[1].properties,
                                 rawLines |-> st.currentEventLines])
                 ELSE @,
               !.currentEvent = <<>>, !.currentEventLines = <<>>,
               !.inEvent = FALSE, !.inValarm = FALSE]
  ELSE IF trimmedLine = END_VCALENDAR THEN st
  ELSE IF st.inEvent THEN
    IF trimmedLine = BEGIN_VALARM THEN [st EXCEPT !.inValarm = TRUE]
    ELSE IF trimmedLine = END_VALARM THEN [st EXCEPT !.inValarm = FALSE]
    ELSE IF SkipsAlarmLine(st) THEN st
    ELSE
      [st EXCEPT !.currentEventLines = Append(@, trimmedLine),
                 !.currentEvent =
                   IF IndexOf(trimmedLine, ":") # -1
                   THEN <<[properties |->
                             PropPut(@[1].properties, eventProperty(trimmedLine))]>>
                   ELSE @]
  ELSE IF keepsAsHeader(st) THEN
    [st EXCEPT !.headerLines = Append(@, trimmedLine),
               !.properties =
                 IF IndexOf(trimmedLine, ":") # -1 /\ ~StartsWith(trimmedLine, BEGIN_)
                 THEN PropPut(@, calendarProperty(trimmedLine))
                 ELSE @]
  ELSE st

\* The locals of parse after the first k passes of its loop over ls.
RECURSIVE ScanFrom(_, _, _, _)
ScanFrom(st, ls, i, k) ==
  IF i > k THEN st ELSE ScanFrom(ScanStep(st, ls[i]), ls, i + 1, k)

Scan(ls, k) == ScanFrom(ScanInit, ls, 1, k)

parse(icsContent) ==
  LET ls == lines(icsContent)
      st == Scan(ls, Len(ls))
  IN [headerLines |-> st.headerLines, events |-> st.events,
      properties |-> st.properties]

----------------------------------------------------------------------------
(* Dates.  A Date is the number of seconds since the epoch (the grammar of *)
(* parseICalDate has no finer unit); <<>> is null and <<t>> the Date t.    *)

Digits == <<"0","1","2","3","4","5","6","7","8","9">>

IsDigit(c) == \E k \in 1..10 : Digits[k] = c

DigitValue(c) == (CHOOSE k \in 1..10 : Digits[k] = c) - 1

\* parseInt(s, 10) of a string of decimal digits.
RECURSIVE ParseIntFrom(_, _, _)
ParseIntFrom(s, i, acc) ==
  IF i > Len(s) THEN acc ELSE ParseIntFrom(s, i + 1, acc * 10 + DigitValue(s[i]))

ParseInt(s) == ParseIntFrom(s, 1, 0)

AllDigits(s) == \A k \in 1..Len(s) : IsDigit(s[k])

\* Days from the epoch to the first day of month0 (0-based, any integer) of
\* year: ECMAScript's MakeDay for the proleptic Gregorian calendar.
DaysFromCivil(year, month0) ==
  LET ym == year + (month0 \div 12)
      m == (month0 % 12) + 1
      y == IF m <= 2 THEN ym - 1 ELSE ym
      era == y \div 400
      yoe == y - era * 400
      mp == IF m > 2 THEN m - 3 ELSE m + 9
      doy == (153 * mp + 2) \div 5
      doe == yoe * 365 + (yoe \div 4) - (yoe \div 100) + doy
  IN era * 146097 + doe - 719468

\* Date.UTC(year, month, day, hour, minute, second), in seconds.  A year in
\* 0..99 stands for 1900 + year.
DateUTC(year, month, day, hour, minute, second) ==
  LET fullYear == IF year >= 0 /\ year <= 99 THEN 1900 + year ELSE year
  IN (DaysFromCivil(fullYear, month) + day - 1) * 86400
       + hour * 3600 + minute * 60 + second

\* The offset of local time from UTC, in seconds (the host's time zone, taken
\* as a fixed offset).
LocalOffset == 9 * 3600

\* new Date(year, month, day, hour, minute, second): the fields are local time.
DateLocal(year, month, day, hour, minute, second) ==
  DateUTC(year, month, day, hour, minute, second) - LocalOffset

\* Date.prototype.getFullYear: the year of the date in local time.
getFullYear(t) ==
  LET z == ((t + LocalOffset) \div 86400) + 719468
      era == z \div 146097
      doe == z - era * 146097
      yoe == (doe - (doe \div 1460) + (doe \div 36524) - (doe \div 146096)) \div 365
      doy == doe - (365 * yoe + (yoe \div 4) - (yoe \div 100))
      mp == (5 * doy + 2) \div 153
      m == IF mp < 10 THEN mp + 3 ELSE mp - 9
  IN yoe + era * 400 + (IF m <= 2 THEN 1 ELSE 0)

\* dateStr.replace(/^.*:/, ''): what follows the last ':'.
cleanDateStr(dateStr) == SubstringFrom(dateStr, LastIndexOf(dateStr, ":") + 1)

\* /^(\d{4})(\d{2})(\d{2})(T(\d{2})(\d{2})(\d{2})(Z)?)?$/
MatchesDate(s) ==
  \/ Len(s) = 8 /\ AllDigits(s)
  \/ /\ Len(s) \in {15, 16}
     /\ AllDigits(SubSeq(s, 1, 8))
     /\ s[9] = "T"
     /\ AllDigits(SubSeq(s, 10, 15))
     /\ Len(s) = 16 => s[16] = "Z"

parseICalDate(dateStr) ==
  IF dateStr = <<>> THEN <<>>
  ELSE
    LET s == cleanDateStr(dateStr) IN
    IF ~MatchesDate(s) THEN <<>>
    ELSE
      LET year == ParseInt(SubSeq(s, 1, 4))
          month == ParseInt(SubSeq(s, 5, 6)) - 1
          day == ParseInt(SubSeq(s, 7, 8))
          hasTime == Len(s) > 8
          hour == IF hasTime THEN ParseInt(SubSeq(s, 10, 11)) ELSE 0
          minute == IF hasTime THEN ParseInt(SubSeq(s, 12, 13)) ELSE 0
          second == IF hasTime THEN ParseInt(SubSeq(s, 14, 15)) ELSE 0
          isUTC == Len(s) = 16
      IN IF isUTC THEN <<DateUTC(year, month, day, hour, minute, second)>>
         ELSE <<DateLocal(year, month, day, hour, minute, second)>>

DTSTART == <<"D","T","S","T","A","R","T">>

getEventDate(event) ==
  IF ~PropHas(event.properties, DTSTART) THEN <<>>
  ELSE parseICalDate(PropGet(event.properties, DTSTART).value)

\* The object `stats` of getStatistics before its loop; events is filled in.
StatsInit ==
  [totalEvents |-> 0, earliestDate |-> <<>>, latestDate |-> <<>>,
   eventsByYear |-> <<>>]

\* A variant that takes a date as the earliest only if it is before one.
isBeforeEarliest(st, date) ==
  st.earliestDate # <<>> /\ date[1] < st.earliestDate[1]

\* !stats.earliestDate || date < stats.earliestDate
isEarliest(st, date) ==
  st.earliestDate = <<>> \/ date[1] < st.earliestDate[1]

\* !stats.latestDate || date > stats.latestDate
isLatest(st, date) ==
  st.latestDate = <<>> \/ date[1] > st.latestDate[1]

\* One pass of the loop of getStatistics over `event`.
StatsStep(st, event) ==
  LET date == getEventDate(event) IN
  IF date = <<>> THEN st
  ELSE LET year == ToString(getFullYear(date[1]))
           byYear == st.eventsByYear
       IN [st EXCEPT
             !.earliestDate = IF isEarliest(st, date) THEN date ELSE @,
             !.latestDate = IF isLatest(st, date) THEN date ELSE @,
             !.eventsByYear =
               [y \in DOMAIN byYear \cup {year} |->
                  IF y = year
                  THEN (IF year \in DOMAIN byYear THEN byYear[year] ELSE 0) + 1
                  ELSE byYear[y]]]

\* stats after the first k passes of the loop of getStatistics.
RECURSIVE StatsUpTo(_, _)
StatsUpTo(events, k) ==
  IF k = 0 THEN [StatsInit EXCEPT !.totalEvents = Len(events)]
  ELSE StatsStep(StatsUpTo(events, k - 1), events[k])

getStatistics(cal) == StatsUpTo(cal.events, Len(cal.events))

----------------------------------------------------------------------------
(* ICalWriter.foldLine                                                     *)

MAX_LINE_LENGTH == 75

IsHighSurrogate(c) == c = HS

\* pos is a 0-based position of str.
isContinuationByte(str, pos) ==
  IF pos <= 0 \/ pos >= Len(str) THEN FALSE
  ELSE IsHighSurrogate(str[pos])

\* The inner while of foldLine: cutPos after the backward adjustment.
RECURSIVE AdjustCut(_, _)
AdjustCut(remaining, cutPos) ==
  IF cutPos > 0 /\ isContinuationByte(remaining, cutPos)
  THEN AdjustCut(remaining, cutPos - 1)
  ELSE cutPos

\* The locals of foldLine on entering its outer while.
FoldInit(line) ==
  [remaining |-> line, result |-> <<>>, isFirst |-> TRUE, broke |-> FALSE]

\* Whether the outer while of foldLine has ended: by its break or its test.
FoldEnded(st) == st.broke \/ Len(st.remaining) = 0

\* A variant with the same length for every segment.
maxLenOfFirst(isFirst) == MAX_LINE_LENGTH

\* const maxLen = isFirst ? this.MAX_LINE_LENGTH : this.MAX_LINE_LENGTH - 1
maxLen(isFirst) == IF isFirst THEN MAX_LINE_LENGTH ELSE MAX_LINE_LENGTH - 1

\* One pass of the outer while of foldLine.
FoldPass(st) ==
  IF Len(st.remaining) <= maxLen(st.isFirst)
  THEN [st EXCEPT !.result = Append(@, IF st.isFirst THEN st.remaining
                                       ELSE <<SP>> \o st.remaining),
                  !.broke = TRUE]
  ELSE
    LET cutPos == AdjustCut(st.remaining, maxLen(st.isFirst))
        chunk == Substring(st.remaining, 0, cutPos)
    IN [st EXCEPT !.result = Append(@, IF st.isFirst THEN chunk
                                       ELSE <<SP>> \o chunk),
                  !.remaining = SubstringFrom(st.remaining, cutPos),
                  !.isFirst = FALSE]

RECURSIVE FoldLoop(_)
FoldLoop(st) == IF FoldEnded(st) THEN st ELSE FoldLoop(FoldPass(st))

\* foldLine as a function, for the lines on which its loop ends.
foldLine(line) ==
  IF Len(line) <= MAX_LINE_LENGTH THEN line
  ELSE Join(FoldLoop(FoldInit(line)).result, CRLF)

----------------------------------------------------------------------------
(* ICalWriter.isAllowedProperty and ICalWriter.write                       *)

blockedProperties ==
  << <<"X","-","A","P","P","L","E","-">>,
     <<"X","-","W","R","-","A","L","A","R","M","U","I","D">>,
     <<"A","C","K","N","O","W","L","E","D","G","E","D">>,
     <<"A","T","T","A","C","H">> >>

\* A variant that matches a blocked name by equality alone.
equalsBlocked(propName) ==
  \E k \in 1..Len(blockedProperties) : propName = blockedProperties[k]

\* The for loop of isAllowedProperty: whether some blocked name matches.
matchesBlocked(propName) ==
  \E k \in 1..Len(blockedProperties) :
    StartsWith(propName, blockedProperties[k]) \/ propName = blockedProperties[k]

\* A variant that allows every line.
allowsEveryLine(line) == TRUE

isAllowedProperty(line) ==
  LET colonIndex == IndexOf(line, ":")
      semicolonIndex == IndexOf(line, ";")
  IN
  IF semicolonIndex # -1 /\ (colonIndex = -1 \/ semicolonIndex < colonIndex)
  THEN ~matchesBlocked(ToUpperCase(Substring(line, 0, semicolonIndex)))
  ELSE IF colonIndex # -1
  THEN ~matchesBlocked(ToUpperCase(Substring(line, 0, colonIndex)))
  ELSE FALSE

VERSION_2_0 == <<"V","E","R","S","I","O","N",":","2",".","0">>
PRODID_DEFAULT ==
  <<"P","R","O","D","I","D",":","-","/","/","i","C","A","L"," ",
    "S","p","l","i","t","t","e","r","/","/","E","N">>

\* The lines write pushes for the header.
headerOutputLines(cal) ==
  IF Len(cal.headerLines) > 0
  THEN [k \in 1..Len(cal.headerLines) |-> foldLine(cal.headerLines[k])]
  ELSE <<BEGIN_VCALENDAR, VERSION_2_0, PRODID_DEFAULT>>

\* The raw lines write considers for one event: _rawLines, or without them the
\* raw line of every property.
eventSourceLines(event) ==
  IF Len(event.rawLines) > 0 THEN event.rawLines
  ELSE [k \in 1..Len(event.properties) |-> event.properties[k].raw]

Emitted(line, clean) == Trim(line) # <<>> /\ (clean => isAllowedProperty(line))

\* The lines write pushes between BEGIN:VEVENT and END:VEVENT of one event.
RECURSIVE bodyOutputLines(_, _)
bodyOutputLines(src, clean) ==
  IF src = <<>> THEN <<>>
  ELSE IF Emitted(Head(src), clean)
       THEN <<foldLine(Head(src))>> \o bodyOutputLines(Tail(src), clean)
  ELSE bodyOutputLines(Tail(src), clean)

\* The lines write pushes for one event.
eventOutputLines(event, clean) ==
  <<BEGIN_VEVENT>> \o bodyOutputLines(eventSourceLines(event), clean) \o <<END_VEVENT>>

RECURSIVE eventsOutputLines(_, _)
eventsOutputLines(events, clean) ==
  IF events = <<>> THEN <<>>
  ELSE eventOutputLines(Head(events), clean) \o eventsOutputLines(Tail(events), clean)

outputLines(cal, events, clean) ==
  headerOutputLines(cal) \o eventsOutputLines(events, clean) \o <<END_VCALENDAR>>

write(cal, events, clean) == Join(outputLines(cal, events, clean), CRLF) \o CRLF

----------------------------------------------------------------------------
(* ICalWriter.filterByDateRange, splitByYear and splitBySize.              *)
(* These pass event objects around by reference: an event object is        *)
(* denoted by its index in the `events` array the call was given.          *)

Indices(events) == [k \in 1..Len(events) |-> k]

\* events[k] for each k of idx, in order.
Deref(events, idx) == [j \in 1..Len(idx) |-> events[idx[j]]]

\* A variant whose end bound is exclusive.
inDateRangeEndExclusive(event, start, end) ==
  LET date == getEventDate(event) IN
  IF date = <<>> THEN TRUE
  ELSE IF start # <<>> /\ date[1] < start[1] THEN FALSE
  ELSE IF end # <<>> /\ date[1] >= end[1] THEN FALSE
  ELSE TRUE

\* The callback of filter in filterByDateRange.
inDateRange(event, start, end) ==
  LET date == getEventDate(event) IN
  IF date = <<>> THEN TRUE
  ELSE IF start # <<>> /\ date[1] < start[1] THEN FALSE
  ELSE IF end # <<>> /\ date[1] > end[1] THEN FALSE
  ELSE TRUE

RECURSIVE filterFrom(_, _, _, _)
filterFrom(events, start, end, k) ==
  IF k > Len(events) THEN <<>>
  ELSE IF inDateRange(events[k], start, end)
       THEN <<k>> \o filterFrom(events, start, end, k + 1)
  ELSE filterFrom(events, start, end, k + 1)

filterByDateRange(events, start, end) == filterFrom(events, start, end, 1)

UNKNOWN == "unknown"

\* A variant that takes the year in UTC.
yearKeyUTC(event) ==
  LET date == getEventDate(event) IN
  IF date # <<>> THEN ToString(getFullYear(date[1] - LocalOffset)) ELSE UNKNOWN

\* The key of the bucket of an event: the year as a property key, or 'unknown'.
yearKey(event) ==
  LET date == getEventDate(event) IN
  IF date # <<>> THEN ToString(getFullYear(date[1])) ELSE UNKNOWN

\* byYear after the first k events; a function from keys to arrays of events.
RECURSIVE byYearUpTo(_, _)
byYearUpTo(events, k) ==
  IF k = 0 THEN <<>>
  ELSE LET byYear == byYearUpTo(events, k - 1)
           year == yearKey(events[k])
       IN IF year \in DOMAIN byYear
          THEN [byYear EXCEPT ![year] = Append(@, k)]
          ELSE [y \in DOMAIN byYear \cup {year} |->
                  IF y = year THEN <<k>> ELSE byYear[y]]

splitByYear(events) == byYearUpTo(events, Len(events))

\* The comparator splitBySize sorts with: negative, zero or positive.
\* A variant that puts the earlier date first.
compareByDateAscending(a, b) ==
  LET dateA == getEventDate(a)
      dateB == getEventDate(b)
  IN IF dateA = <<>> /\ dateB = <<>> THEN 0
     ELSE IF dateA = <<>> THEN 1
     ELSE IF dateB = <<>> THEN -1
     ELSE dateA[1] - dateB[1]

compareByDate(a, b) ==
  LET dateA == getEventDate(a)
      dateB == getEventDate(b)
  IN IF dateA = <<>> /\ dateB = <<>> THEN 0
     ELSE IF dateA = <<>> THEN 1
     ELSE IF dateB = <<>> THEN -1
     ELSE dateB[1] - dateA[1]

\* Array.prototype.sort is stable: x goes behind every element it does not
\* precede.
RECURSIVE InsertByDate(_, _, _)
InsertByDate(events, sorted, x) ==
  IF sorted = <<>> THEN <<x>>
  ELSE IF compareByDate(events[sorted[Len(sorted)]], events[x]) <= 0
       THEN Append(sorted, x)
  ELSE Append(InsertByDate(events, SubSeq(sorted, 1, Len(sorted) - 1), x),
              sorted[Len(sorted)])

RECURSIVE sortedUpTo(_, _)
sortedUpTo(events, k) ==
  IF k = 0 THEN <<>> ELSE InsertByDate(events, sortedUpTo(events, k - 1), k)

sortedEvents(events) == sortedUpTo(events, Len(events))

END_VCALENDAR_CRLF == END_VCALENDAR \o CRLF
DEFAULT_HEADER_TEXT ==
  BEGIN_VCALENDAR \o CRLF \o VERSION_2_0 \o CRLF \o PRODID_DEFAULT \o CRLF

RECURSIVE SumLineSizes(_)
SumLineSizes(ls) ==
  IF ls = <<>> THEN 0 ELSE Len(Head(ls)) + 2 + SumLineSizes(Tail(ls))

getHeaderFooterSize(cal) ==
  Len(END_VCALENDAR_CRLF)
    + (IF Len(cal.headerLines) > 0 THEN SumLineSizes(cal.headerLines)
       ELSE Len(DEFAULT_HEADER_TEXT))

\* A variant that leaves the two marker lines of the event out.
getEventSizeOfLines(event) ==
  IF Len(event.rawLines) > 0 THEN SumLineSizes(event.rawLines)
  ELSE SumLineSizes([k \in 1..Len(event.properties) |-> event.properties[k].raw])

getEventSize(event) ==
  Len(BEGIN_VEVENT \o CRLF) + Len(END_VEVENT \o CRLF)
    + (IF Len(event.rawLines) > 0 THEN SumLineSizes(event.rawLines)
       ELSE SumLineSizes([k \in 1..Len(event.properties) |->
                            event.properties[k].raw]))

\* The non-null dates of the events, sorted ascending.
RECURSIVE InsertAscending(_, _)
InsertAscending(sorted, d) ==
  IF sorted = <<>> THEN <<d>>
  ELSE IF sorted[Len(sorted)] <= d THEN Append(sorted, d)
  ELSE Append(InsertAscending(SubSeq(sorted, 1, Len(sorted) - 1), d),
              sorted[Len(sorted)])

RECURSIVE chunkDates(_, _)
chunkDates(events, idx) ==
  IF idx = <<>> THEN <<>>
  ELSE LET rest == chunkDates(events, SubSeq(idx, 1, Len(idx) - 1))
           date == getEventDate(events[idx[Len(idx)]])
       IN IF date = <<>> THEN rest ELSE InsertAscending(rest, date[1])

\* createChunkResult for the events idx; the field `events` is not a field of
\* the object the code returns: it records the array the chunk was built from.
createChunkResult(cal, events, idx, clean) ==
  LET dates == chunkDates(events, idx) IN
  [content |-> write(cal, Deref(events, idx), clean),
   startDate |-> IF Len(dates) > 0 THEN <<dates[1]>> ELSE <<>>,
   endDate |-> IF Len(dates) > 0 THEN <<dates[Len(dates)]>> ELSE <<>>,
   eventCount |-> Len(idx),
   events |-> idx]

\* A variant that closes the chunk also when it is empty.
closesEmptyChunk(st, eventSize, maxSize) ==
  st.currentSize + eventSize > maxSize

\* A variant that closes the chunk only once it is over the size.
closesFullChunk(st, eventSize, maxSize) ==
  st.currentSize > maxSize /\ Len(st.currentEvents) > 0

\* The test of the if in the for loop of splitBySize: the current chunk is
\* closed before the event is added.
closesChunk(st, eventSize, maxSize) ==
  st.currentSize + eventSize > maxSize /\ Len(st.currentEvents) > 0

\* One pass of the for loop of splitBySize over the event object x.
splitStep(cal, events, maxSize, clean, st, x) ==
  LET eventSize == getEventSize(events[x])
      flush == closesChunk(st, eventSize, maxSize)
  IN [results |-> IF flush
                  THEN Append(st.results,
                              createChunkResult(cal, events, st.currentEvents, clean))
                  ELSE st.results,
      currentEvents |-> Append(IF flush THEN <<>> ELSE st.currentEvents, x),
      currentSize |-> (IF flush THEN getHeaderFooterSize(cal) ELSE st.currentSize)
                        + eventSize]

RECURSIVE splitLoop(_, _, _, _, _, _)
splitLoop(cal, events, maxSize, clean, sorted, k) ==
  IF k = 0
  THEN [results |-> <<>>, currentEvents |-> <<>>,
        currentSize |-> getHeaderFooterSize(cal)]
  ELSE splitStep(cal, events, maxSize, clean,
                 splitLoop(cal, events, maxSize, clean, sorted, k - 1), sorted[k])

splitBySize(cal, events, maxSize, clean) ==
  LET sorted == sortedEvents(events)
      st == splitLoop(cal, events, maxSize, clean, sorted, Len(sorted))
  IN IF Len(st.currentEvents) > 0
     THEN Append(st.results, createChunkResult(cal, events, st.currentEvents, clean))
     ELSE st.results

----------------------------------------------------------------------------
(* The session of the application: the text of a file is loaded and        *)
(* parsed, and the events of the calendar are written out.                 *)

MaxLines == 5
LongValueLen == 72
LongBreak == 40

\* A property line of more than 75 units, and the same line folded as a file
\* holds it: two physical lines of at most 75 units.
LongLine ==
  <<"D","E","S","C",":">> \o [k \in 1..LongValueLen |-> "x"]
LongLineFolded ==
  SubSeq(LongLine, 1, LongBreak) \o CRLF \o <<TAB>>
    \o SubSeq(LongLine, LongBreak + 1, Len(LongLine))
AttachLine == <<"a","t","t","a","c","h",";","x",":","1">>

\* The lines documents are made of: each as the file holds it, with its line
\* terminator, and as the logical line it stands for.
Vocabulary ==
  << [physical |-> BEGIN_VEVENT \o CRLF, logical |-> BEGIN_VEVENT],
     [physical |-> END_VEVENT \o <<LF>>, logical |-> END_VEVENT],
     [physical |-> BEGIN_VALARM \o CRLF, logical |-> BEGIN_VALARM],
     [physical |-> END_VALARM \o <<CR>>, logical |-> END_VALARM],
     [physical |-> END_VCALENDAR \o CRLF, logical |-> END_VCALENDAR],
     [physical |-> LongLineFolded \o CRLF, logical |-> LongLine],
     [physical |-> AttachLine \o <<SP>> \o <<LF>>, logical |-> AttachLine] >>

Docs == UNION {[1..n -> 1..Len(Vocabulary)] : n \in 0..MaxLines}

DocText(d) == Concat([k \in 1..Len(d) |-> d[k].physical])

NoDate == <<>>

Init ==
  /\ phase = "idle"
  /\ doc = <<>>
  /\ text = <<>>
  /\ calendar = [headerLines |-> <<>>, events |-> <<>>, properties |-> <<>>]
  /\ selection = <<>>
  /\ cleanMode = FALSE
  /\ output = <<>>
  /\ maxSizeBytes = 0
  /\ startDate = NoDate
  /\ endDate = NoDate
  /\ result = <<>>
  /\ stats = StatsInit
  /\ fl_line = <<>>
  /\ fl_remaining = <<>>
  /\ fl_result = <<>>
  /\ fl_isFirst = TRUE
  /\ fl_pc = "idle"
  /\ fl_return = <<>>

\* ICalSplitterApp.loadFile: the text of a file is read.
Load ==
  /\ phase = "idle"
  /\ \E d \in Docs :
       /\ doc' = [k \in 1..Len(d) |-> Vocabulary[d[k]]]
       /\ text' = DocText(doc')
  /\ phase' = "loaded"
  /\ UNCHANGED <<stats, calendar, selection, cleanMode, output, maxSizeBytes,
                 startDate, endDate, result>>
  /\ UNCHANGED foldVars

\* ICalSplitterApp.loadFile: the text is parsed and the statistics are taken.
Parse ==
  /\ phase = "loaded"
  /\ calendar' = parse(text)
  /\ stats' = getStatistics(calendar')
  /\ phase' = "parsed"
  /\ UNCHANGED <<doc, text, selection, cleanMode, output, maxSizeBytes,
                 startDate, endDate, result>>
  /\ UNCHANGED foldVars

\* ICalWriter.write for all the events of the calendar.
Write ==
  /\ phase = "parsed"
  /\ \E clean \in BOOLEAN :
       /\ cleanMode' = clean
       /\ selection' = Indices(calendar.events)
       /\ output' = write(calendar, calendar.events, clean)
  /\ phase' = "written"
  /\ UNCHANGED <<stats, doc, text, calendar, maxSizeBytes, startDate, endDate, result>>
  /\ UNCHANGED foldVars

Next == Load \/ Parse \/ Write

Spec == Init /\ [][Next]_vars

----------------------------------------------------------------------------
(* The same session on the documents that hold one event, made of the      *)
(* property lines clean mode tells apart.                                  *)

MaxBody == 2

PropertyVocabulary ==
  << [physical |-> AttachLine \o <<SP>> \o <<LF>>, logical |-> AttachLine],
     [physical |-> <<"X","-","A","p","p","l","e","-","Z",":","1">> \o CRLF,
      logical |-> <<"X","-","A","p","p","l","e","-","Z",":","1">>],
     [physical |-> <<"X","-","W","R","-","A","L","A","R","M","U","I","D",":","1">> \o CRLF,
      logical |-> <<"X","-","W","R","-","A","L","A","R","M","U","I","D",":","1">>],
     [physical |-> <<"A","C","K","N","O","W","L","E","D","G","E","D",";","A">> \o CRLF,
      logical |-> <<"A","C","K","N","O","W","L","E","D","G","E","D",";","A">>],
     [physical |-> <<"A","T","T","A","C","H","E","D",":","1">> \o <<CR>>,
      logical |-> <<"A","T","T","A","C","H","E","D",":","1">>],
     [physical |-> <<"U","I","D",":">> \o CRLF \o <<SP, "1">> \o CRLF,
      logical |-> <<"U","I","D",":","1">>],
     [physical |-> <<"F","O","O">> \o CRLF, logical |-> <<"F","O","O">>],
     [physical |-> <<"F","O","O",";","B">> \o CRLF, logical |-> <<"F","O","O",";","B">>],
     [physical |-> <<"X","-","A","P","P","L","E",":","1">> \o CRLF,
      logical |-> <<"X","-","A","P","P","L","E",":","1">>],
     [physical |-> <<"U","R","L",":","a",";","b">> \o CRLF,
      logical |-> <<"U","R","L",":","a",";","b">>],
     [physical |-> <<"U","R","L",":","h",":","p">> \o CRLF,
      logical |-> <<"U","R","L",":","h",":","p">>],
     [physical |-> <<"K",";","P","=","q",":","r",":","s">> \o CRLF,
      logical |-> <<"K",";","P","=","q",":","r",":","s">>] >>

Bodies == UNION {[1..n -> 1..Len(PropertyVocabulary)] : n \in 0..MaxBody}

\* ICalSplitterApp.loadFile: the text of a file holding one event is read.
LoadEvent ==
  /\ phase = "idle"
  /\ \E b \in Bodies :
       /\ doc' = <<Vocabulary[1]>> \o [k \in 1..Len(b) |-> PropertyVocabulary[b[k]]]
                   \o <<Vocabulary[2]>>
       /\ text' = DocText(doc')
  /\ phase' = "loaded"
  /\ UNCHANGED <<stats, calendar, selection, cleanMode, output, maxSizeBytes,
                 startDate, endDate, result>>
  /\ UNCHANGED foldVars

NextEvent == LoadEvent \/ Parse \/ Write

SpecEvent == Init /\ [][NextEvent]_vars

----------------------------------------------------------------------------
(* The session on well-formed documents of dated and undated events, whose *)
(* events are filtered by date, split by year and split by size.           *)

MaxEvents == 3
SizeBase == 110
SizeStep == 45
SizeSteps == 3

Line(l) == [physical |-> l \o CRLF, logical |-> l]

\* The bodies of the events: a date in local time (2023), a UTC time that
\* falls in the next year in local time (2024), a local time with a TZID
\* parameter (2024), no DTSTART, and a DTSTART that is no date of the grammar,
\* in an event larger than the others.
EventVocabulary ==
  << << Line(<<"D","T","S","T","A","R","T",":","2","0","2","3","0","1","0","1">>) >>,
     << Line(<<"D","T","S","T","A","R","T",":",
               "2","0","2","3","1","2","3","1","T","2","0","0","0","0","0","Z">>) >>,
     << Line(<<"D","T","S","T","A","R","T",";","T","Z","I","D","=","J",":",
               "2","0","2","4","0","1","0","1","T","0","0","0","0","0","0">>) >>,
     << Line(<<"U","I","D",":","1">>) >>,
     << Line(<<"D","T","S","T","A","R","T",":","2","0","2","3","-","0","1","-","0","1">>),
        Line(LongLine), Line(LongLine) >> >>

EventLists == UNION {[1..n -> 1..Len(EventVocabulary)] : n \in 0..MaxEvents}

\* The lines of the document of the events es, after the header lines hdr.
RECURSIVE EventsDoc(_)
EventsDoc(es) ==
  IF es = <<>> THEN <<>>
  ELSE <<Vocabulary[1]>> \o EventVocabulary[Head(es)] \o <<Vocabulary[2]>>
         \o EventsDoc(Tail(es))

\* The dates of the vocabulary's events, and no date: the bounds of a filter.
FilterBounds ==
  {NoDate} \cup
    {parseICalDate(EventVocabulary[k][1].logical) : k \in 1..3}

MaxSizes == {1} \cup {SizeBase + k * SizeStep : k \in 0..SizeSteps}

\* ICalSplitterApp.loadFile: the text of a file of events is read, with the
\* header line BEGIN:VCALENDAR or with no header.
LoadEvents ==
  /\ phase = "idle"
  /\ \E es \in EventLists, withHeader \in BOOLEAN :
       /\ doc' = (IF withHeader THEN <<Line(BEGIN_VCALENDAR)>> ELSE <<>>)
                   \o EventsDoc(es) \o <<Vocabulary[5]>>
       /\ text' = DocText(doc')
  /\ phase' = "loaded"
  /\ UNCHANGED <<stats, calendar, selection, cleanMode, output, maxSizeBytes,
                 startDate, endDate, result>>
  /\ UNCHANGED foldVars

\* ICalSplitterApp.splitByDate: the call of ICalWriter.filterByDateRange.
Filter ==
  /\ phase = "parsed"
  /\ \E start \in FilterBounds, end \in FilterBounds :
       /\ startDate' = start
       /\ endDate' = end
       /\ result' = filterByDateRange(calendar.events, start, end)
  /\ phase' = "filtered"
  /\ UNCHANGED <<stats, doc, text, calendar, selection, cleanMode, output, maxSizeBytes>>
  /\ UNCHANGED foldVars

\* ICalSplitterApp.splitByYear: the call of ICalWriter.splitByYear.
SplitByYear ==
  /\ phase = "parsed"
  /\ result' = splitByYear(calendar.events)
  /\ phase' = "byYear"
  /\ UNCHANGED <<stats, doc, text, calendar, selection, cleanMode, output, maxSizeBytes,
                 startDate, endDate>>
  /\ UNCHANGED foldVars

\* ICalSplitterApp.splitBySize: the call of ICalWriter.splitBySize.
SplitBySize ==
  /\ phase = "parsed"
  /\ \E maxSize \in MaxSizes, clean \in BOOLEAN :
       /\ maxSizeBytes' = maxSize
       /\ cleanMode' = clean
       /\ result' = splitBySize(calendar, calendar.events, maxSize, clean)
  /\ phase' = "bySize"
  /\ UNCHANGED <<stats, doc, text, calendar, selection, output, startDate, endDate>>
  /\ UNCHANGED foldVars

NextSplit == LoadEvents \/ Parse \/ Filter \/ SplitByYear \/ SplitBySize

SpecSplit == Init /\ [][NextSplit]_vars

----------------------------------------------------------------------------
(* The block structure of a document, read off its logical lines L alone.  *)

RefLines == [k \in 1..Len(doc) |-> doc[k].logical]

\* An event is open where line i stands: a BEGIN:VEVENT precedes it with no
\* END:VEVENT in between.
OpenAt(L, i) ==
  \E b \in 1..(i - 1) :
    L[b] = BEGIN_VEVENT /\ \A k \in (b + 1)..(i - 1) : L[k] # END_VEVENT

\* The event open after line i gets closed: an END:VEVENT follows with no
\* BEGIN:VEVENT in between.
Completes(L, i) ==
  \E e \in (i + 1)..Len(L) :
    L[e] = END_VEVENT /\ \A k \in (i + 1)..(e - 1) : L[k] # BEGIN_VEVENT

\* Line i of an event belongs to an alarm block: it is a VALARM marker, or a
\* BEGIN:VALARM of the event precedes it with neither END:VALARM nor
\* END:VEVENT in between.
AlarmLine(L, i) ==
  /\ OpenAt(L, i)
  /\ \/ L[i] \in {BEGIN_VALARM, END_VALARM}
     \/ \E j \in 1..(i - 1) :
          /\ L[j] = BEGIN_VALARM
          /\ OpenAt(L, j)
          /\ \A k \in (j + 1)..(i - 1) : L[k] \notin {END_VALARM, END_VEVENT}

StructureLine(l) == l \in {BEGIN_VEVENT, END_VEVENT, END_VCALENDAR}

\* The lines of events that lie outside every alarm block.
PlainEventLine(L, i) ==
  ~StructureLine(L[i]) /\ OpenAt(L, i) /\ ~AlarmLine(L, i)

\* The lines of L a calendar document keeps: the header before the first
\* BEGIN:VEVENT, the closed events without their alarm blocks, and a final
\* END:VCALENDAR.
Kept(L, i) ==
  IF L[i] = BEGIN_VEVENT THEN Completes(L, i)
  ELSE IF L[i] = END_VEVENT THEN OpenAt(L, i)
  ELSE IF L[i] = END_VCALENDAR THEN i = Len(L)
  ELSE IF OpenAt(L, i) THEN ~AlarmLine(L, i) /\ Completes(L, i)
  ELSE \A b \in 1..(i - 1) : L[b] # BEGIN_VEVENT

KeptLines(L) ==
  LET IsKept(i) == Kept(L, i)
      kept == SelectSeq([i \in 1..Len(L) |-> i], IsKept)
  IN [j \in 1..Len(kept) |-> L[kept[j]]]

PlainEventLines(L) ==
  LET IsPlain(i) == PlainEventLine(L, i)
      plain == SelectSeq([i \in 1..Len(L) |-> i], IsPlain)
  IN [j \in 1..Len(plain) |-> L[plain[j]]]

\* a is b with some of its elements left out.
RECURSIVE IsSubseq(_, _)
IsSubseq(a, b) ==
  IF a = <<>> THEN TRUE
  ELSE IF b = <<>> THEN FALSE
  ELSE IF Head(a) = Head(b) THEN IsSubseq(Tail(a), Tail(b))
  ELSE IsSubseq(a, Tail(b))

\* The physical lines of a text.
PhysicalLines(t) == Split(normalizedContent(t), LF)

AllLinesShort(t) ==
  LET ls == PhysicalLines(t) IN \A k \in 1..Len(ls) : Len(ls[k]) <= MAX_LINE_LENGTH

\* The raw lines stored in the events of a calendar, in order.
StoredRawLines(cal) == Concat([k \in 1..Len(cal.events) |-> cal.events[k].rawLines])

\* The logical lines of a written document that follow its header and are
\* no structure line.
WrittenBodyLines(cal, out) ==
  LET ls == lines(out)
      h == IF Len(cal.headerLines) > 0 THEN Len(cal.headerLines) ELSE 3
      NotStructure(l) == ~StructureLine(l)
  IN SelectSeq(SubSeq(ls, h + 1, Len(ls)), NotStructure)

----------------------------------------------------------------------------
C2_AlarmLinesSuppressed ==
  /\ phase \in {"parsed", "written"} =>
       /\ IsSubseq(StoredRawLines(calendar), PlainEventLines(RefLines))
       /\ \A k \in 1..Len(calendar.events) :
            \A p \in 1..Len(calendar.events[k].properties) :
              \E j \in 1..Len(calendar.events[k].rawLines) :
                calendar.events[k].rawLines[j] = calendar.events[k].properties[p].raw
  /\ phase = "written" =>
       IsSubseq(WrittenBodyLines(calendar, output), PlainEventLines(RefLines))

\* An event with a closed alarm block holding a line was parsed and written.
C2_Witness ==
  /\ phase = "written"
  /\ Len(calendar.events) = 1
  /\ \E i \in 1..Len(doc) :
       /\ AlarmLine(RefLines, i)
       /\ RefLines[i] \notin {BEGIN_VALARM, END_VALARM}
       /\ i < Len(doc) /\ RefLines[i + 1] = END_VALARM

----------------------------------------------------------------------------
(* The denylist of clean mode, read off a line alone.                      *)

HasSeparator(l) == \E k \in 1..Len(l) : l[k] \in {":", ";"}

\* The property name of a line: what precedes its first ';' or ':'.
NameOf(l) ==
  IF HasSeparator(l)
  THEN SubSeq(l, 1, MinOf({k \in 1..Len(l) : l[k] \in {":", ";"}}) - 1)
  ELSE l

Denylisted(l) ==
  \E k \in 1..Len(blockedProperties) :
    StartsWith(ToUpperCase(NameOf(l)), blockedProperties[k])

\* The lines of closed events outside alarm blocks.
KeptBodyLines(L) ==
  LET IsBody(i) == PlainEventLine(L, i) /\ Completes(L, i)
      body == SelectSeq([i \in 1..Len(L) |-> i], IsBody)
  IN [j \in 1..Len(body) |-> L[body[j]]]

DenylistedOf(ls) == SelectSeq(ls, Denylisted)

(* C7: the clean-mode denylist.  The denylisted lines of the events of a   *)
(* document are all stored in rawLines, none of them is in the event lines *)
(* written in clean mode, and all of them are in the event lines written   *)
(* with clean mode off.                                                    *)
C7_DenylistedStoredAndFiltered ==
  /\ phase \in {"parsed", "written"} =>
       DenylistedOf(StoredRawLines(calendar)) = DenylistedOf(KeptBodyLines(RefLines))
  /\ (phase = "written" /\ cleanMode) =>
       DenylistedOf(WrittenBodyLines(calendar, output)) = <<>>
  /\ (phase = "written" /\ ~cleanMode) =>
       DenylistedOf(WrittenBodyLines(calendar, output))
         = DenylistedOf(KeptBodyLines(RefLines))

\* An event with a denylisted line and another line was written in clean mode:
\* the denylisted line is stored, and the other line alone is written.
C7_Witness ==
  /\ phase = "written" /\ cleanMode
  /\ Len(DenylistedOf(StoredRawLines(calendar))) = 1
  /\ Len(StoredRawLines(calendar)) = 2
  /\ Len(WrittenBodyLines(calendar, output)) = 1

NotDenylisted(l) == ~Denylisted(l)

(* C8, as stated: clean mode excludes only denylisted names.               *)
(* isAllowedProperty is true of every raw line that is not denylisted, and *)
(* the event lines written in clean mode are all the raw lines that are    *)
(* not denylisted, lines without a ':' included.                           *)
C8_OnlyDenylistedExcluded ==
  /\ phase \in {"parsed", "written"} =>
       \A k \in 1..Len(StoredRawLines(calendar)) :
         NotDenylisted(StoredRawLines(calendar)[k])
           => isAllowedProperty(StoredRawLines(calendar)[k])
  /\ (phase = "written" /\ cleanMode) =>
       WrittenBodyLines(calendar, output)
         = SelectSeq(StoredRawLines(calendar), NotDenylisted)

AllowedByName(l) == HasSeparator(l) /\ ~Denylisted(l)

(* C8, amended: clean mode excludes the denylisted names and the lines     *)
(* that hold neither ':' nor ';'.  isAllowedProperty is true of exactly    *)
(* the raw lines that hold a ':' or a ';' and are not denylisted, and the  *)
(* event lines written in clean mode are exactly those raw lines.          *)
C8_DenylistedOrUnnamedExcluded ==
  /\ phase \in {"parsed", "written"} =>
       \A k \in 1..Len(StoredRawLines(calendar)) :
         isAllowedProperty(StoredRawLines(calendar)[k])
           <=> AllowedByName(StoredRawLines(calendar)[k])
  /\ (phase = "written" /\ cleanMode) =>
       WrittenBodyLines(calendar, output)
         = SelectSeq(StoredRawLines(calendar), AllowedByName)

\* An event with a line holding ';' but no ':' and a line holding neither was
\* written in clean mode: the first is written, the second is not.
C8_Witness ==
  /\ phase = "written" /\ cleanMode
  /\ Len(StoredRawLines(calendar)) = 2
  /\ \E k \in 1..2 : ~HasSeparator(StoredRawLines(calendar)[k])
  /\ Len(WrittenBodyLines(calendar, output)) = 1
  /\ ":" \notin {WrittenBodyLines(calendar, output)[1][j] :
                   j \in 1..Len(WrittenBodyLines(calendar, output)[1])}

----------------------------------------------------------------------------
(* Splitting by size, by year, and filtering by date.                      *)

RECURSIVE SumEventCounts(_)
SumEventCounts(chunks) ==
  IF chunks = <<>> THEN 0 ELSE Head(chunks).eventCount + SumEventCounts(Tail(chunks))

IsBeginEvent(l) == l = BEGIN_VEVENT

\* The places (chunk, position) of the event object i in the chunks.
PlacesInChunks(chunks, i) ==
  {<<c, j>> \in (1..Len(chunks)) \X (1..Len(calendar.events)) :
     j <= Len(chunks[c].events) /\ chunks[c].events[j] = i}

(* C3: splitBySize partitions the events.  The eventCount values of the    *)
(* chunks sum to the number of events, every chunk has eventCount >= 1 and *)
(* holds that many events in its content, every event is at exactly one    *)
(* place of one chunk, and there is a chunk if and only if there is an     *)
(* event.                                                                  *)
C3_SizePartition ==
  (phase = "bySize" /\ maxSizeBytes > 0) =>
    /\ SumEventCounts(result) = Len(calendar.events)
    /\ \A c \in 1..Len(result) :
         /\ result[c].eventCount >= 1
         /\ result[c].eventCount = Len(result[c].events)
         /\ Len(SelectSeq(lines(result[c].content), IsBeginEvent)) = result[c].eventCount
    /\ \A i \in 1..Len(calendar.events) :
         Cardinality(PlacesInChunks(result, i)) = 1
    /\ (Len(calendar.events) > 0) <=> (Len(result) > 0)

\* Three events were split into two chunks, one of two events.
C3_Witness ==
  /\ phase = "bySize"
  /\ Len(calendar.events) = 3
  /\ Len(result) = 2
  /\ \E c \in 1..2 : result[c].eventCount = 2

Oversize(i) == getEventSize(calendar.events[i]) > maxSizeBytes

(* C4: the oversize event policy.  An event whose own estimated size       *)
(* exceeds maxSizeBytes is the only event of the chunk that holds it.      *)
C4_OversizeEventAlone ==
  phase = "bySize" =>
    \A c \in 1..Len(result) :
      \A j \in 1..Len(result[c].events) :
        Oversize(result[c].events[j]) =>
          (result[c].eventCount = 1 /\ Len(result[c].events) = 1)

\* An oversize event is alone in a chunk between the chunks of two events that
\* are not oversize.
C4_Witness ==
  /\ phase = "bySize"
  /\ Len(result) = 3
  /\ Oversize(result[2].events[1])
  /\ ~Oversize(result[1].events[1])
  /\ ~Oversize(result[3].events[1])

\* The calendar year of a date in local time, by the first instants of years.
YearRange == 1971..2037
YearOf(t) ==
  CHOOSE y \in YearRange :
    DateLocal(y, 0, 1, 0, 0, 0) <= t /\ t < DateLocal(y + 1, 0, 1, 0, 0, 0)

\* The places (key, position) of the event object i in the buckets.
PlacesInBuckets(byYear, i) ==
  {<<y, j>> \in (DOMAIN byYear) \X (1..Len(calendar.events)) :
     j <= Len(byYear[y]) /\ byYear[y][j] = i}

(* C5: splitByYear is complete.  Every event is at exactly one place of    *)
(* one bucket; an event with a date is in the bucket of the calendar year  *)
(* of the date and an event without one in the bucket "unknown"; no bucket *)
(* is empty; a bucket holds its events in their original order.            *)
C5_YearBuckets ==
  phase = "byYear" =>
    /\ \A i \in 1..Len(calendar.events) :
         Cardinality(PlacesInBuckets(result, i)) = 1
    /\ \A y \in DOMAIN result :
         /\ result[y] # <<>>
         /\ \A j \in 1..(Len(result[y]) - 1) : result[y][j] < result[y][j + 1]
         /\ \A j \in 1..Len(result[y]) :
              LET date == getEventDate(calendar.events[result[y][j]])
              IN IF date = <<>> THEN y = "unknown"
                 ELSE y = ToString(YearOf(date[1]))

\* Three events went to the buckets 2023, 2024 and "unknown", the one of 2024
\* being the event whose UTC time is still in 2023.
C5_Witness ==
  /\ phase = "byYear"
  /\ DOMAIN result = {"2023", "2024", "unknown"}
  /\ \E k \in 1..Len(calendar.events[result["2024"][1]].rawLines) :
       LET l == calendar.events[result["2024"][1]].rawLines[k] IN l[Len(l)] = "Z"

\* Whether filterByDateRange is to keep the event object i.
InBounds(i) ==
  LET date == getEventDate(calendar.events[i]) IN
  \/ date = <<>>
  \/ /\ startDate = NoDate \/ startDate[1] <= date[1]
     /\ endDate = NoDate \/ date[1] <= endDate[1]

(* C6: filterByDateRange returns, in their original order, exactly the     *)
(* events that have no date or whose date d satisfies start <= d <= end,   *)
(* an absent bound being no limit.                                         *)
C6_DateRangeFilter ==
  phase = "filtered" =>
    result = SelectSeq(Indices(calendar.events), InBounds)

\* With both bounds at the date of one event, that event and an undated event
\* are kept and a later event is left out.
C6_Witness ==
  /\ phase = "filtered"
  /\ startDate # NoDate /\ endDate = startDate
  /\ Len(calendar.events) = 3
  /\ Len(result) = 2
  /\ \E j \in 1..2 : getEventDate(calendar.events[result[j]]) = startDate
  /\ \E j \in 1..2 : getEventDate(calendar.events[result[j]]) = <<>>

----------------------------------------------------------------------------
(* Calls of foldLine, one pass of its loop at a time.                      *)

MaxFoldLen == 152
MaxRun == 2
LongRun == 74
MaxSegments == 4
CutWindow == 3

Letters == <<"a", "b", "c", "d", "e", "f", "g">>

\* The positions of a line where a mark is put: those around the cuts.
MarkPositions ==
  {p \in 1..MaxFoldLen :
     \E cut \in {MAX_LINE_LENGTH, 2 * MAX_LINE_LENGTH - 1} :
       cut - CutWindow <= p /\ p <= cut + CutWindow - 1}

PlainLine(n) == [k \in 1..n |-> Letters[(k % 7) + 1]]

\* A line with a space at position p.
SpaceLine(n, p) == [k \in 1..n |-> IF k = p THEN SP ELSE Letters[(k % 7) + 1]]

\* A line with r high surrogates that end at position p and a low surrogate
\* after them.
RunLine(n, p, r) ==
  [k \in 1..n |-> IF p - r < k /\ k <= p THEN HS
                  ELSE IF k = p + 1 THEN LS
                  ELSE Letters[(k % 7) + 1]]

RunLengths == (1..MaxRun) \cup {LongRun, LongRun + 1}

FoldInputs ==
  {PlainLine(n) : n \in 0..MaxFoldLen}
  \cup {SpaceLine(n, p) : n \in 1..MaxFoldLen, p \in MarkPositions}
  \cup {RunLine(n, p, r) : n \in 1..MaxFoldLen, p \in MarkPositions, r \in RunLengths}

\* foldLine is called: its early return, or the entry to its loop.
FoldCall ==
  /\ fl_pc = "idle"
  /\ \E line \in FoldInputs :
       /\ fl_line' = line
       /\ IF Len(line) <= MAX_LINE_LENGTH
          THEN /\ fl_pc' = "done"
               /\ fl_return' = line
               /\ fl_remaining' = <<>>
               /\ fl_result' = <<>>
               /\ fl_isFirst' = TRUE
          ELSE /\ fl_pc' = "loop"
               /\ fl_return' = <<>>
               /\ fl_remaining' = FoldInit(line).remaining
               /\ fl_result' = FoldInit(line).result
               /\ fl_isFirst' = FoldInit(line).isFirst
  /\ UNCHANGED sessionVars

\* One pass of the while of foldLine.  The array `result` is capped at
\* MaxSegments segments.
FoldIterate ==
  /\ fl_pc = "loop"
  /\ Len(fl_remaining) > 0
  /\ Len(fl_result) < MaxSegments
  /\ LET st == FoldPass([remaining |-> fl_remaining, result |-> fl_result,
                         isFirst |-> fl_isFirst, broke |-> FALSE])
     IN /\ fl_remaining' = st.remaining
        /\ fl_result' = st.result
        /\ fl_isFirst' = st.isFirst
        /\ fl_pc' = IF st.broke THEN "exit" ELSE "loop"
  /\ UNCHANGED <<fl_line, fl_return>>
  /\ UNCHANGED sessionVars

\* The while has ended: return result.join('\r\n').
FoldReturn ==
  /\ fl_pc = "exit" \/ (fl_pc = "loop" /\ Len(fl_remaining) = 0)
  /\ fl_return' = Join(fl_result, CRLF)
  /\ fl_pc' = "done"
  /\ UNCHANGED <<fl_line, fl_remaining, fl_result, fl_isFirst>>
  /\ UNCHANGED sessionVars

NextFold == FoldCall \/ FoldIterate \/ FoldReturn

SpecFold == Init /\ [][NextFold]_vars

\* The physical lines of the text that foldLine returned.
ReturnedLines == Split(ReplaceCRLF(fl_return), LF)

(* C9: the line-length limit of foldLine.  A line of at most 75 units is   *)
(* returned unchanged.  For a longer line the first physical line of the   *)
(* result has at most 75 units, every later one is a space followed by at  *)
(* most 74 units, and they are the segments joined by CRLF; so no physical *)
(* line has more than 75 units.                                            *)
C9_FoldedLineLengths ==
  fl_pc = "done" =>
    IF Len(fl_line) <= 75 THEN fl_return = fl_line
    ELSE /\ ReturnedLines = fl_result
         /\ Len(ReturnedLines[1]) <= 75
         /\ \A k \in 2..Len(ReturnedLines) :
              /\ ReturnedLines[k] # <<>>
              /\ ReturnedLines[k][1] = SP
              /\ Len(ReturnedLines[k]) - 1 <= 74
         /\ \A k \in 1..Len(ReturnedLines) : Len(ReturnedLines[k]) <= 75

\* A line was folded into three segments, the first cut one unit early because
\* of a high surrogate and the second a space and 74 units.
C9_Witness ==
  /\ fl_pc = "done"
  /\ Len(fl_result) = 3
  /\ Len(fl_result[1]) = 74
  /\ fl_line[75] = HS
  /\ Len(fl_result[2]) = 75

\* The parser's unfolding of a text: lines 16 and 19 of parse.
Unfolded(t) == RemoveFolds(ReplaceCR(ReplaceCRLF(t)))

\* The units of the input that the segments carry, in order.
CarriedUnits ==
  Concat([k \in 1..Len(fl_result) |->
            IF k = 1 THEN fl_result[k] ELSE Tail(fl_result[k])])

(* C10: the fold/unfold round trip.  For a line without line breaks, the   *)
(* parser's unfolding of what foldLine returned is the line, and the units *)
(* that the segments carry, in order, are the line.                        *)
C10_FoldUnfoldRoundTrip ==
  fl_pc = "done" =>
    /\ Unfolded(fl_return) = fl_line
    /\ Len(fl_line) > 75 => CarriedUnits = fl_line

\* A line was folded into three segments, the second of which carries a space
\* of the line as its first unit.
C10_Witness ==
  /\ fl_pc = "done"
  /\ Len(fl_result) = 3
  /\ fl_result[2][1] = SP /\ fl_result[2][2] = SP
  /\ Len(fl_result[2]) = 75

----------------------------------------------------------------------------
(* The session on the documents made of component markers in any order,    *)
(* whose events, or some of them, are written out.                         *)

MaxMarkers == 4

UidLine == <<"U","I","D",":","1">>

MarkerVocabulary ==
  << Line(BEGIN_VCALENDAR), Line(BEGIN_VEVENT), Line(END_VEVENT),
     Line(BEGIN_VALARM), Line(END_VALARM), Line(UidLine), Line(END_VCALENDAR) >>

MarkerDocs == UNION {[1..n -> 1..Len(MarkerVocabulary)] : n \in 0..MaxMarkers}

\* ICalSplitterApp.loadFile: the text of a file of markers is read.
LoadMarkers ==
  /\ phase = "idle"
  /\ \E d \in MarkerDocs :
       /\ doc' = [k \in 1..Len(d) |-> MarkerVocabulary[d[k]]]
       /\ text' = DocText(doc')
  /\ phase' = "loaded"
  /\ UNCHANGED <<stats, calendar, selection, cleanMode, output, maxSizeBytes,
                 startDate, endDate, result>>
  /\ UNCHANGED foldVars

\* ICalWriter.write for a sub-list of the events of the calendar.
WriteSome ==
  /\ phase = "parsed"
  /\ \E clean \in BOOLEAN, chosen \in SUBSET (1..Len(calendar.events)) :
       /\ cleanMode' = clean
       /\ selection' = IncreasingSeq(Len(calendar.events), chosen)
       /\ output' = write(calendar, Deref(calendar.events, selection'), clean)
  /\ phase' = "written"
  /\ UNCHANGED <<stats, doc, text, calendar, maxSizeBytes, startDate, endDate, result>>
  /\ UNCHANGED foldVars

NextMarkers == LoadMarkers \/ Parse \/ WriteSome

SpecMarkers == Init /\ [][NextMarkers]_vars

END_ == <<"E","N","D",":">>

\* The component a BEGIN: or END: line names.
ComponentOf(l) == SubSeq(l, IndexOf(l, ":") + 2, Len(l))

\* The open components after the lines ls, innermost last; ok is false once
\* an END: line closes what is not the innermost open component.
RECURSIVE Nesting(_)
Nesting(ls) ==
  IF ls = <<>> THEN [ok |-> TRUE, open |-> <<>>]
  ELSE LET before == Nesting(SubSeq(ls, 1, Len(ls) - 1))
           l == ls[Len(ls)]
       IN IF ~before.ok THEN before
          ELSE IF StartsWith(l, BEGIN_)
          THEN [before EXCEPT !.open = Append(@, ComponentOf(l))]
          ELSE IF StartsWith(l, END_)
          THEN IF before.open # <<>>
                    /\ before.open[Len(before.open)] = ComponentOf(l)
               THEN [before EXCEPT !.open = SubSeq(@, 1, Len(@) - 1)]
               ELSE [before EXCEPT !.ok = FALSE]
          ELSE before

Balanced(ls) == Nesting(ls).ok /\ Nesting(ls).open = <<>>

IsEndEvent(l) == l = END_VEVENT

(* C11: the output of write is balanced.  For every text and every         *)
(* sub-list of the events parsed from it, the lines of the document that   *)
(* write returns nest properly, every BEGIN: with its END: and every END:  *)
(* with its BEGIN:, and hold one BEGIN:VEVENT and one END:VEVENT for each  *)
(* event passed in.                                                        *)
C11_WriteBalanced ==
  phase = "written" =>
    /\ Balanced(lines(output))
    /\ Len(SelectSeq(lines(output), IsBeginEvent)) = Len(selection)
    /\ Len(SelectSeq(lines(output), IsEndEvent)) = Len(selection)

----------------------------------------------------------------------------
(* The header lines of the parsed calendar.                                *)

\* Line i is an event line: a VEVENT marker or a line of an open event.
EventLine(L, i) == L[i] \in {BEGIN_VEVENT, END_VEVENT} \/ OpenAt(L, i)

\* Line i is an alarm line, in an event or not: a VALARM marker, or a line
\* that a BEGIN:VALARM precedes with no END:VALARM in between.
AlarmLineAnywhere(L, i) ==
  \/ L[i] \in {BEGIN_VALARM, END_VALARM}
  \/ \E j \in 1..(i - 1) :
       L[j] = BEGIN_VALARM /\ \A k \in (j + 1)..(i - 1) : L[k] # END_VALARM

\* The lines that are neither event lines nor alarm lines.
NeitherEventNorAlarmLines(L) ==
  LET IsFree(i) == ~EventLine(L, i) /\ ~AlarmLineAnywhere(L, i)
      free == SelectSeq([i \in 1..Len(L) |-> i], IsFree)
  IN [j \in 1..Len(free) |-> L[free[j]]]

(* C12, as stated: the header holds no event line and no alarm line.  The  *)
(* headerLines of the parsed calendar are, in order, among the lines of    *)
(* the document that are no VEVENT or VALARM marker and lie in no VEVENT   *)
(* or VALARM block.                                                        *)
C12_HeaderHasNoEventOrAlarmLine ==
  phase \in {"parsed", "written"} =>
    IsSubseq(calendar.headerLines, NeitherEventNorAlarmLines(RefLines))

\* The lines before the first BEGIN:VEVENT, END:VEVENT and END:VCALENDAR
\* lines left out.
LinesBeforeFirstEvent(L) ==
  LET IsHead(i) == /\ \A b \in 1..i : L[b] # BEGIN_VEVENT
                   /\ L[i] \notin {END_VEVENT, END_VCALENDAR}
      head == SelectSeq([i \in 1..Len(L) |-> i], IsHead)
  IN [j \in 1..Len(head) |-> L[head[j]]]

(* C12, amended: the header holds no event line.  The headerLines of the   *)
(* parsed calendar are exactly the lines that precede the first            *)
(* BEGIN:VEVENT, END:VEVENT and END:VCALENDAR lines left out: none is a    *)
(* VEVENT marker, a line of an event or an alarm line of an event, while   *)
(* VALARM markers and alarm lines that precede the first event are kept.   *)
C12_HeaderIsLinesBeforeFirstEvent ==
  phase \in {"parsed", "written"} =>
    /\ calendar.headerLines = LinesBeforeFirstEvent(RefLines)
    /\ \A k \in 1..Len(calendar.headerLines) :
         calendar.headerLines[k] \notin {BEGIN_VEVENT, END_VEVENT}

\* A BEGIN:VALARM before the first event is a header line, and the alarm
\* block of the event that follows is in no header line.
C12_Witness ==
  /\ phase = "parsed"
  /\ calendar.headerLines = <<BEGIN_VALARM>>
  /\ Len(calendar.events) = 1
  /\ \E i \in 1..Len(RefLines) : RefLines[i] = BEGIN_VALARM /\ OpenAt(RefLines, i)

----------------------------------------------------------------------------
(* The order of the events in the chunks of splitBySize.                   *)

\* The event objects of the chunks, read chunk by chunk.
ChunkedEvents == Concat([c \in 1..Len(result) |-> result[c].events])

\* Event object a is to stand before event object b: a has the later date,
\* or b has no date and a has one, or neither decides and a came first.
StandsBefore(a, b) ==
  LET dateA == getEventDate(calendar.events[a])
      dateB == getEventDate(calendar.events[b])
  IN IF dateA = <<>> THEN dateB = <<>> /\ a < b
     ELSE IF dateB = <<>> THEN TRUE
     ELSE dateA[1] > dateB[1] \/ (dateA[1] = dateB[1] /\ a < b)

(* C13: the ordering of splitBySize.  The events of the chunks, read chunk *)
(* by chunk, are the input events by date descending, the undated events   *)
(* after all dated ones, and events that the dates do not tell apart in    *)
(* their original order.                                                   *)
C13_ChunksInDateOrder ==
  phase = "bySize" =>
    /\ Len(ChunkedEvents) = Len(calendar.events)
    /\ \A p \in 1..Len(ChunkedEvents), q \in 1..Len(ChunkedEvents) :
         p < q => StandsBefore(ChunkedEvents[p], ChunkedEvents[q])

\* Three events given as undated, earlier, later come out in the reverse
\* order, in more than one chunk.
C13_Witness ==
  /\ phase = "bySize"
  /\ ChunkedEvents = <<3, 2, 1>>
  /\ Len(result) >= 2
  /\ getEventDate(calendar.events[1]) = <<>>
  /\ getEventDate(calendar.events[2]) # <<>>

----------------------------------------------------------------------------
(* The statistics of the parsed calendar.                                  *)

\* The event objects that have a date, and the dates.
Dated == {i \in 1..Len(calendar.events) : getEventDate(calendar.events[i]) # <<>>}
DateOf(i) == getEventDate(calendar.events[i])[1]

RECURSIVE SumOver(_, _)
SumOver(f, S) ==
  IF S = {} THEN 0
  ELSE LET x == CHOOSE x \in S : TRUE IN f[x] + SumOver(f, S \ {x})

(* C14: getStatistics.  totalEvents is the number of events; the counts of *)
(* eventsByYear sum to the number of dated events and the count of a year  *)
(* is the number of dated events of that year; earliestDate and latestDate *)
(* are the least and the greatest date, earliestDate <= latestDate, and    *)
(* both are absent exactly when no event has a date.                       *)
C14_Statistics ==
  phase = "parsed" =>
    /\ stats.totalEvents = Len(calendar.events)
    /\ SumOver(stats.eventsByYear, DOMAIN stats.eventsByYear) = Cardinality(Dated)
    /\ DOMAIN stats.eventsByYear = {ToString(YearOf(DateOf(i))) : i \in Dated}
    /\ \A y \in DOMAIN stats.eventsByYear :
         stats.eventsByYear[y]
           = Cardinality({i \in Dated : ToString(YearOf(DateOf(i))) = y})
    /\ (stats.earliestDate = <<>>) <=> (Dated = {})
    /\ (stats.latestDate = <<>>) <=> (Dated = {})
    /\ Dated # {} =>
         /\ \E i \in Dated : stats.earliestDate[1] = DateOf(i)
         /\ \E i \in Dated : stats.latestDate[1] = DateOf(i)
         /\ \A i \in Dated : stats.earliestDate[1] <= DateOf(i)
         /\ \A i \in Dated : DateOf(i) <= stats.latestDate[1]
         /\ stats.earliestDate[1] <= stats.latestDate[1]

\* Of three events one is undated and two are of different years, the later
\* one given first.
C14_Witness ==
  /\ phase = "parsed"
  /\ stats.totalEvents = 3
  /\ Cardinality(Dated) = 2
  /\ DOMAIN stats.eventsByYear = {"2023", "2024"}
  /\ stats.earliestDate[1] < stats.latestDate[1]
  /\ 1 \in Dated /\ stats.latestDate[1] = DateOf(1)

----------------------------------------------------------------------------
(* The property map of a parsed event.                                     *)

HasColon(l) == \E k \in 1..Len(l) : l[k] = ":"
FirstColon(l) == MinOf({k \in 1..Len(l) : l[k] = ":"})
FinalColon(l) == MaxOf({k \in 1..Len(l) : l[k] = ":"})

\* The last raw line of the event e that holds a ':' and has the name of l.
LastOfName(e, l) ==
  LET same == {j \in 1..Len(e.rawLines) :
                 HasColon(e.rawLines[j]) /\ NameOf(e.rawLines[j]) = NameOf(l)}
  IN e.rawLines[MaxOf(same)]

\* The property recorded for the raw line l of the event e, which is its
\* last line of that name: the name is the text before the first ';' or ':',
\* the parameters and the value are the texts before and after position
\* colon of the line.
RecordedAt(e, l, colon) ==
  /\ PropHas(e.properties, NameOf(l))
  /\ LET p == PropGet(e.properties, NameOf(l)) IN
       /\ p.raw = l
       /\ p.parameters = SubSeq(l, Len(NameOf(l)) + 1, colon - 1)
       /\ p.value = SubSeq(l, colon + 1, Len(l))

(* C15, as stated: a property line is split at its final ':'.  For every   *)
(* event line holding a ':' the name is the text before the first ';' or   *)
(* ':', the parameter string the text between the name and the final ':',  *)
(* and the value the text after the final ':'.                             *)
C15_SplitAtFinalColon ==
  phase \in {"parsed", "written"} =>
    \A k \in 1..Len(calendar.events) :
      \A j \in 1..Len(calendar.events[k].rawLines) :
        LET e == calendar.events[k]
            l == LastOfName(e, e.rawLines[j])
        IN HasColon(e.rawLines[j]) => RecordedAt(e, l, FinalColon(l))

(* C15, amended: a property line is split at its first ':'.  For every     *)
(* event line holding a ':' the name is the text before the first ';' or   *)
(* ':', the parameter string the text between the name and the first ':',  *)
(* and the value the text after the first ':', later ':' included; of the  *)
(* lines of one name the last is the one recorded; a line without ':' is   *)
(* not recorded.                                                           *)
C15_SplitAtFirstColon ==
  phase \in {"parsed", "written"} =>
    \A k \in 1..Len(calendar.events) :
      LET e == calendar.events[k] IN
      /\ \A j \in 1..Len(e.rawLines) :
           LET l == LastOfName(e, e.rawLines[j])
           IN HasColon(e.rawLines[j]) => RecordedAt(e, l, FirstColon(l))
      /\ \A p \in 1..Len(e.properties) :
           \E j \in 1..Len(e.rawLines) :
             e.rawLines[j] = e.properties[p].raw /\ HasColon(e.rawLines[j])

\* An event holds a line with parameters and two ':': its value holds the
\* second ':'.
C15_Witness ==
  /\ phase = "parsed"
  /\ Len(calendar.events) = 1
  /\ PropHas(calendar.events[1].properties, <<"K">>)
  /\ PropGet(calendar.events[1].properties, <<"K">>).value = <<"r", ":", "s">>
  /\ PropGet(calendar.events[1].properties, <<"K">>).parameters = <<";","P","=","q">>
  /\ Len(calendar.events[1].rawLines) = 2

----------------------------------------------------------------------------
(* The states of the scan of parse.                                        *)

\* The locals of parse after each prefix of the lines of the text.
ScanStates ==
  LET ls == lines(text) IN [k \in 0..Len(ls) |-> Scan(ls, k)]

(* C16: the state machine of the parser.  At every point of the scan the   *)
(* alarm flag is set only while the event flag is set, and right after a   *)
(* BEGIN:VEVENT line the parser is inside an event, not inside an alarm,   *)
(* with an empty accumulator, whatever lines came before.                  *)
C16_BeginEventEntersInsideEvent ==
  phase \in {"parsed", "written"} =>
    LET ls == lines(text) IN
    \A k \in 0..Len(ls) :
      LET st == ScanStates[k] IN
      /\ st.inValarm => st.inEvent
      /\ (k >= 1 /\ Trim(ls[k]) = BEGIN_VEVENT) =>
           (st.inEvent /\ ~st.inValarm /\ st.currentEventLines = <<>>)

----------------------------------------------------------------------------
(* The progress of the loop of foldLine.                                   *)

(* C17: foldLine terminates.  Each pass of its loop takes at least one     *)
(* unit off the remaining text: every segment pushed carries a unit of the *)
(* line (the cut position was not 0), and what remains together with what  *)
(* the segments carry is the line, so the passes are at most as many as    *)
(* the units of the line.                                                  *)
C17_EachPassRemovesAUnit ==
  fl_pc \in {"loop", "exit"} =>
    /\ \A k \in 1..Len(fl_result) :
         Len(fl_result[k]) >= (IF k = 1 THEN 1 ELSE 2)
    /\ Len(fl_result) <= Len(fl_line)

----------------------------------------------------------------------------
(* The sizes of the chunks of splitBySize.                                 *)

RECURSIVE SumEventSizes(_)
SumEventSizes(idx) ==
  IF idx = <<>> THEN 0
  ELSE getEventSize(calendar.events[Head(idx)]) + SumEventSizes(Tail(idx))

\* The estimated size of chunk c: the header and footer and its events.
EstimatedSize(c) ==
  getHeaderFooterSize(calendar) + SumEventSizes(result[c].events)

\* Every header line and every raw line of the events of chunk c is at most
\* 75 units long.
ShortLinesIn(c) ==
  /\ \A h \in 1..Len(calendar.headerLines) : Len(calendar.headerLines[h]) <= 75
  /\ \A j \in 1..Len(result[c].events) :
       LET e == calendar.events[result[c].events[j]] IN
       \A k \in 1..Len(e.rawLines) : Len(e.rawLines[k]) <= 75

(* C18: the size bound of chunks of several events.  A chunk of two or     *)
(* more events has an estimated size of at most maxSizeBytes; with clean   *)
(* mode off and no header or raw line over 75 units the content of a chunk *)
(* is as long as its estimated size, so that only a chunk of one event can *)
(* be longer than maxSizeBytes.                                            *)
C18_ChunkSizes ==
  phase = "bySize" =>
    \A c \in 1..Len(result) :
      /\ result[c].eventCount >= 2 => EstimatedSize(c) <= maxSizeBytes
      /\ (~cleanMode /\ ShortLinesIn(c)) =>
           /\ Len(result[c].content) = EstimatedSize(c)
           /\ Len(result[c].content) > maxSizeBytes => result[c].eventCount = 1

\* With clean mode off, a chunk of two events of short lines is as long as
\* estimated and within the size, with no room left for the first event.
C18_Witness ==
  /\ phase = "bySize" /\ ~cleanMode
  /\ \E c \in 1..Len(result) :
       /\ result[c].eventCount = 2
       /\ ShortLinesIn(c)
       /\ Len(result[c].content) = EstimatedSize(c)
       /\ maxSizeBytes - Len(result[c].content) < getEventSize(calendar.events[1])
  /\ Len(result) >= 2

====
